---- MODULE Spec2Model ----
(***************************************************************************)
(* Model of knapsack-problem/knapsack-problem-python-solution.ipynb.       *)
(*                                                                         *)
(* The notebook is a straight-line script of code cells.  One action       *)
(* models one code cell; pc names the cell that runs next.  The two        *)
(* library solvers (scipy.optimize.milp and PuLP's CBC) are modelled by    *)
(* their contract: they report "infeasible" when the declared model has    *)
(* no solution and otherwise return SOME optimal solution of the declared  *)
(* model; which one is the solver's choice.                                *)
(*                                                                         *)
(* Weights are kept in tenths of a kilogram (0.5 kg is 5) so that the      *)
(* arithmetic is exact; Tenths converts the capacity, which the notebook   *)
(* gives in whole kilograms.                                               *)
(*                                                                         *)
(* The data cell is the input of the run.  The item table is the one of    *)
(* the notebook; the capacity is drawn from a range around the notebook's  *)
(* value, so that infeasible models and models with several optimal        *)
(* selections occur next to the notebook's own instance.                   *)
(***************************************************************************)
EXTENDS Integers, Sequences, FiniteSets, TLC

VARIABLES pc, knapsack_capacity, items, df,
          decision_variables, bounds, integrality, constraints, sol,
          prob, x1_decision_var, weights, relative_values, varValue,
          results, pulp_decision_var_results,
          output, milp_calls, solve_calls

vars == <<pc, knapsack_capacity, items, df,
          decision_variables, bounds, integrality, constraints, sol,
          prob, x1_decision_var, weights, relative_values, varValue,
          results, pulp_decision_var_results,
          output, milp_calls, solve_calls>>

scipyVars == <<decision_variables, bounds, integrality, constraints, sol>>
pulpVars  == <<prob, x1_decision_var, weights, relative_values, varValue,
               results, pulp_decision_var_results>>

(***************************************************************************)
(* Bounds of the model: the capacities the data cell is run with are       *)
(* -NegCapacity .. MaxCapacity kilograms.                                  *)
(***************************************************************************)
NegCapacity == 1
MaxCapacity == 7

(***************************************************************************)
(* Python values.  None is the empty tuple, a present value v is <<v>>.    *)
(***************************************************************************)
None == << >>
Some(v) == <<v>>
IsNone(o) == Len(o) = 0
Get(o) == o[1]

(***************************************************************************)
(* The data cell.                                                          *)
(***************************************************************************)
HardcodedCapacity == 5

(* the table with one value mistyped: Propane Cylinder worth 4 instead of 3 *)
HardcodedItemsMistyped ==
    [ItemId        |-> <<1, 2, 3, 4, 5, 6, 7>>,
     ItemName      |-> <<"Compass", "Knife", "Fire Starter Kit", "Tent",
                         "Propane Cylinder", "Food", "Portable Telescope">>,
     Weight        |-> <<5, 15, 4, 10, 16, 11, 8>>,
     RelativeValue |-> <<6, 5, 4, 4, 4, 4, 1>>]

HardcodedItems ==
    [ItemId        |-> <<1, 2, 3, 4, 5, 6, 7>>,
     ItemName      |-> <<"Compass", "Knife", "Fire Starter Kit", "Tent",
                         "Propane Cylinder", "Food", "Portable Telescope">>,
     Weight        |-> <<5, 15, 4, 10, 16, 11, 8>>,
     RelativeValue |-> <<6, 5, 4, 4, 3, 4, 1>>]

Tenths(kg) == 10 * kg

(* pd.DataFrame(items): one column per key of the dict *)
DataFrame(d) ==
    [c \in {"Item Id", "Item Name", "Weight (kg)", "Relative Value"} |->
        CASE c = "Item Id"        -> d.ItemId
          [] c = "Item Name"      -> d.ItemName
          [] c = "Weight (kg)"    -> d.Weight
          [] c = "Relative Value" -> d.RelativeValue]

(* df[col] = values : adds or replaces one column, keeps the others *)
SetColumn(frame, col, values) ==
    [c \in DOMAIN frame \cup {col} |-> IF c = col THEN values ELSE frame[c]]

(***************************************************************************)
(* Arithmetic on vectors (numpy arrays and Python lists).                  *)
(***************************************************************************)
RECURSIVE SumTo(_, _)
SumTo(s, n) == IF n = 0 THEN 0 ELSE SumTo(s, n - 1) + s[n]

Sum(s) == SumTo(s, Len(s))

(* element-wise product of two arrays of the same length *)
Mul(a, b) == [i \in 1..Len(a) |-> a[i] * b[i]]

(* -np.array([1] * 7) * np.array(values) *)
Negate(a) == [i \in 1..Len(a) |-> (0 - 1) * a[i]]

Dot(a, b) == Sum(Mul(a, b))

(* the comprehension with the test inverted *)
BoolColumnInverted(xs) == [i \in 1..Len(xs) |-> xs[i] # 1]

(* [True if i==1 else False for i in xs] *)
BoolColumn(xs) == [i \in 1..Len(xs) |-> xs[i] = 1]

(***************************************************************************)
(* Python dicts keep their keys in insertion order; a repeated key keeps   *)
(* its first position and its last value.                                  *)
(***************************************************************************)
RECURSIVE DictKeys(_)
DictKeys(ks) ==
    IF Len(ks) = 0 THEN << >>
    ELSE LET front == DictKeys(SubSeq(ks, 1, Len(ks) - 1))
             k     == ks[Len(ks)]
         IN  IF \E j \in 1..Len(front) : front[j] = k
             THEN front ELSE Append(front, k)

KeySet(ks) == {ks[j] : j \in 1..Len(ks)}

LastIndex(ks, k) == CHOOSE j \in 1..Len(ks) :
                       ks[j] = k /\ \A m \in (j + 1)..Len(ks) : ks[m] # k

(* dict(zip(ks, vs)) *)
ZipDict(ks, vs) == [k \in KeySet(ks) |-> vs[LastIndex(ks, k)]]

(***************************************************************************)
(* scipy.optimize.milp(c, bounds, constraints, integrality):               *)
(*   minimise c.x  subject to  lb <= x <= ub,  con.lb <= A.x <= con.ub,    *)
(*   x[i] an integer wherever integrality[i] = 1 (here: everywhere).       *)
(***************************************************************************)
SeqMin(s) == CHOOSE v \in {s[i] : i \in 1..Len(s)} :
                \A i \in 1..Len(s) : v <= s[i]

SeqMax(s) == CHOOSE v \in {s[i] : i \in 1..Len(s)} :
                \A i \in 1..Len(s) : s[i] <= v

(* the integer points of Bounds(lb, ub) *)
IntBox(b) ==
    {x \in [1..Len(b.lb) -> SeqMin(b.lb)..SeqMax(b.ub)] :
        \A i \in 1..Len(b.lb) : b.lb[i] <= x[i] /\ x[i] <= b.ub[i]}

MilpFeasible(c, b, con, integ) ==
    {x \in IntBox(b) : con.lb <= Dot(con.A, x) /\ Dot(con.A, x) <= con.ub}

MilpOptimal(c, b, con, integ) ==
    LET F    == MilpFeasible(c, b, con, integ)
        funs == {Dot(c, x) : x \in F}
        best == CHOOSE v \in funs : \A w \in funs : v <= w
    IN  {x \in F : Dot(c, x) = best}

(* the OptimizeResult of milp when it ends with solution x *)
MilpSuccess(c, x) ==
    [status |-> 0, success |-> TRUE, x |-> Some(x), fun |-> Some(Dot(c, x))]

(* the OptimizeResult of milp for a model without solution *)
MilpInfeasible ==
    [status |-> 2, success |-> FALSE, x |-> None, fun |-> None]

(***************************************************************************)
(* The state after the import cell and the data cell.                      *)
(***************************************************************************)
Init ==
    /\ pc = "ScipyDefine"
    /\ knapsack_capacity \in (0 - NegCapacity)..MaxCapacity
    /\ items = HardcodedItems
    /\ df = DataFrame(HardcodedItems)
    /\ decision_variables = None
    /\ bounds = None
    /\ integrality = None
    /\ constraints = None
    /\ sol = None
    /\ prob = None
    /\ x1_decision_var = None
    /\ weights = None
    /\ relative_values = None
    /\ varValue = None
    /\ results = None
    /\ pulp_decision_var_results = None
    /\ output = << >>
    /\ milp_calls = 0
    /\ solve_calls = 0

(***************************************************************************)
(* Scipy solution, cell "Define Problem Variables".                        *)
(***************************************************************************)
lower_bounds(n) == [i \in 1..n |-> 0]

(* an upper bound that lets an item be taken twice *)
upper_bounds_two(n) == [i \in 1..n |-> 2]

upper_bounds(n) == [i \in 1..n |-> 1]

Bounds(lb, ub) == [lb |-> lb, ub |-> ub]

LinearConstraint(A, lb, ub) == [A |-> A, lb |-> lb, ub |-> ub]

(* the objective without the multiplication by -1 *)
ScipyObjectiveNotNegated(values) == values

ScipyObjective(values) == Negate(values)

(* the constraint without its upper bound (ub left at its default, +inf) *)
ScipyConstraintsNoUpper(d, capacity) ==
    LinearConstraint(d.Weight, 0, Sum(d.Weight) + 1)

ScipyConstraints(d, capacity) == LinearConstraint(d.Weight, 0, Tenths(capacity))

ScipyDefine ==
    /\ pc = "ScipyDefine"
    /\ decision_variables' = ScipyObjective(items.RelativeValue)
    /\ bounds' = Bounds(lower_bounds(Len(decision_variables')),
                        upper_bounds(Len(decision_variables')))
    /\ integrality' = [i \in 1..Len(decision_variables') |-> 1]
    /\ constraints' = ScipyConstraints(items, knapsack_capacity)
    /\ output' = output \o
                 << [label |-> "Decision Variables", value |-> decision_variables'],
                    [label |-> "Lower Bounds", value |-> bounds'.lb],
                    [label |-> "Upper Bounds", value |-> bounds'.ub],
                    [label |-> "Integrality", value |-> integrality'] >>
    /\ pc' = "ScipySolve"
    /\ UNCHANGED <<knapsack_capacity, items, df, sol, pulpVars,
                   milp_calls, solve_calls>>

(* the solve cell with a retry: milp is called again until it succeeds *)
ScipySolveRetry ==
    /\ pc = "ScipySolve"
    /\ IF MilpFeasible(decision_variables, bounds, constraints, integrality) = {}
       THEN sol' = MilpInfeasible
       ELSE \E x \in MilpOptimal(decision_variables, bounds, constraints,
                                 integrality) :
               sol' = MilpSuccess(decision_variables, x)
    /\ milp_calls' = milp_calls + 1
    /\ output' = Append(output, [label |-> "sol", value |-> sol'])
    /\ pc' = IF sol'.success THEN "ScipyResults" ELSE "ScipySolve"
    /\ UNCHANGED <<knapsack_capacity, items, df, decision_variables, bounds,
                   integrality, constraints, pulpVars, solve_calls>>

(***************************************************************************)
(* Scipy solution, cell "Solve Model": sol = milp(...); print(sol).        *)
(***************************************************************************)
ScipySolve ==
    /\ pc = "ScipySolve"
    /\ IF MilpFeasible(decision_variables, bounds, constraints, integrality) = {}
       THEN sol' = MilpInfeasible
       ELSE \E x \in MilpOptimal(decision_variables, bounds, constraints,
                                 integrality) :
               sol' = MilpSuccess(decision_variables, x)
    /\ milp_calls' = milp_calls + 1
    /\ output' = Append(output, [label |-> "sol", value |-> sol'])
    /\ pc' = "ScipyResults"
    /\ UNCHANGED <<knapsack_capacity, items, df, decision_variables, bounds,
                   integrality, constraints, pulpVars, solve_calls>>

(* the results cell with a recovery: a failed solve is sent back to milp *)
ScipyResultsRecover ==
    /\ pc = "ScipyResults"
    /\ IF IsNone(sol.x)
       THEN /\ output' = output
            /\ pc' = "ScipySolve"
       ELSE /\ output' = output \o
                   << [label |-> "scipy Decision Variables", value |-> sol.x],
                      [label |-> "scipy Objective Value", value |-> sol.fun],
                      [label |-> "Final Knapsack Weight",
                       value |-> Sum(Mul(Get(sol.x), items.Weight))] >>
            /\ pc' = "ScipyFinal"
    /\ UNCHANGED <<knapsack_capacity, items, df, scipyVars, pulpVars,
                   milp_calls, solve_calls>>

(***************************************************************************)
(* Scipy solution, cell "Model Results".  With sol.x = None the third      *)
(* statement multiplies None by an array: TypeError, the run stops.        *)
(***************************************************************************)
ScipyResults ==
    /\ pc = "ScipyResults"
    /\ IF IsNone(sol.x)
       THEN /\ output' = output \o
                   << [label |-> "scipy Decision Variables", value |-> sol.x],
                      [label |-> "scipy Objective Value", value |-> sol.fun] >>
            /\ pc' = "error"
       ELSE /\ output' = output \o
                   << [label |-> "scipy Decision Variables", value |-> sol.x],
                      [label |-> "scipy Objective Value", value |-> sol.fun],
                      [label |-> "Final Knapsack Weight",
                       value |-> Sum(Mul(Get(sol.x), items.Weight))] >>
            /\ pc' = "ScipyFinal"
    /\ UNCHANGED <<knapsack_capacity, items, df, scipyVars, pulpVars,
                   milp_calls, solve_calls>>

(***************************************************************************)
(* Scipy solution, cell "Final Result".  pandas refuses a column whose     *)
(* length differs from the length of the table (ValueError).               *)
(***************************************************************************)
AssignColumn(frame, col, values) ==
    IF Len(values) = Len(frame["Item Id"])
    THEN SetColumn(frame, col, values)
    ELSE frame

ScipyFinal ==
    /\ pc = "ScipyFinal"
    /\ df' = AssignColumn(df, "scipy_items_to_select", BoolColumn(Get(sol.x)))
    /\ pc' = IF Len(Get(sol.x)) = Len(df["Item Id"]) THEN "PulpDefine" ELSE "error"
    /\ UNCHANGED <<knapsack_capacity, items, scipyVars, pulpVars, output,
                   milp_calls, solve_calls>>

(***************************************************************************)
(* PuLP.  LpVariable(name, lowBound, upBound, cat): a binary variable is   *)
(* stored as an integer variable with bounds 0 and 1.                      *)
(***************************************************************************)
LpVariable(name, lowBound, upBound, cat) ==
    [name     |-> name,
     lowBound |-> IF cat = "Binary" THEN 0 ELSE lowBound,
     upBound  |-> IF cat = "Binary" THEN 1 ELSE upBound,
     cat      |-> IF cat = "Binary" THEN "Integer" ELSE cat]

(* LpVariable.dicts(name, indices, lowBound, upBound, cat) *)
LpVariableDicts(indices, lowBound, upBound, cat) ==
    [keys |-> DictKeys(indices),
     val  |-> [k \in KeySet(indices) |-> LpVariable(k, lowBound, upBound, cat)]]

(* lpSum([coef[i] * x[i] for i in names]): the list of the terms *)
lpSum(coef, names) ==
    [i \in 1..Len(names) |-> [coef |-> coef[names[i]], var |-> names[i]]]

(* the value of an affine expression under an assignment of the variables *)
ExprValue(expr, v) == Sum([i \in 1..Len(expr) |-> expr[i].coef * v[expr[i].var]])

PulpObjective(values, names) == lpSum(values, names)

(* the capacity constraint with the comparison reversed *)
PulpConstraintReversed(w, names, capacity) ==
    [expr |-> lpSum(w, names), sense |-> ">=", rhs |-> Tenths(capacity)]

PulpConstraint(w, names, capacity) ==
    [expr |-> lpSum(w, names), sense |-> "<=", rhs |-> Tenths(capacity)]

PulpDefine ==
    /\ pc = "PulpDefine"
    /\ x1_decision_var' = LpVariableDicts(items.ItemName, 0, 1, "Binary")
    /\ weights' = ZipDict(items.ItemName, items.Weight)
    /\ relative_values' = ZipDict(items.ItemName, items.RelativeValue)
    /\ prob' = [name        |-> "knapsack_pulp",
                sense       |-> "LpMaximize",
                objective   |-> PulpObjective(relative_values', items.ItemName),
                constraints |-> <<PulpConstraint(weights', items.ItemName,
                                                 knapsack_capacity)>>,
                status      |-> 0,
                sol_status  |-> 0]
    /\ pc' = "PulpSolve"
    /\ UNCHANGED <<knapsack_capacity, items, df, scipyVars, varValue, results,
                   pulp_decision_var_results, output, milp_calls, solve_calls>>

(***************************************************************************)
(* PuLP, cell "Solve Model": results = prob.solve(solver).  CBC maximises  *)
(* the objective over the assignments that respect every variable's        *)
(* bounds and category and every constraint of the problem.                *)
(***************************************************************************)
VarRange(var) == var.lowBound..var.upBound

PulpAssignments(xs) ==
    {v \in [DOMAIN xs.val -> UNION {VarRange(xs.val[k]) : k \in DOMAIN xs.val}] :
        \A k \in DOMAIN xs.val : v[k] \in VarRange(xs.val[k])}

Satisfies(con, v) ==
    CASE con.sense = "<=" -> ExprValue(con.expr, v) <= con.rhs
      [] con.sense = ">=" -> ExprValue(con.expr, v) >= con.rhs
      [] con.sense = "==" -> ExprValue(con.expr, v) = con.rhs

PulpFeasible(p, xs) ==
    {v \in PulpAssignments(xs) :
        \A j \in 1..Len(p.constraints) : Satisfies(p.constraints[j], v)}

PulpBetter(sense, a, b) == IF sense = "LpMaximize" THEN a >= b ELSE a <= b

PulpOptimal(p, xs) ==
    LET F    == PulpFeasible(p, xs)
        objs == {ExprValue(p.objective, v) : v \in F}
        best == CHOOSE a \in objs : \A b \in objs : PulpBetter(p.sense, a, b)
    IN  {v \in F : ExprValue(p.objective, v) = best}

LpStatusOptimal == 1
LpStatusInfeasible == 0 - 1

LpStatus(code) ==
    CASE code = 1     -> "Optimal"
      [] code = 0     -> "Not Solved"
      [] code = 0 - 1 -> "Infeasible"
      [] code = 0 - 2 -> "Unbounded"
      [] code = 0 - 3 -> "Undefined"

PulpSolve ==
    /\ pc = "PulpSolve"
    /\ IF PulpFeasible(prob, x1_decision_var) = {}
       THEN /\ results' = LpStatusInfeasible
            /\ varValue' \in PulpAssignments(x1_decision_var)
       ELSE /\ results' = LpStatusOptimal
            /\ varValue' \in PulpOptimal(prob, x1_decision_var)
    /\ prob' = [prob EXCEPT !.status = results', !.sol_status = results']
    /\ solve_calls' = solve_calls + 1
    /\ pc' = "PulpResults"
    /\ UNCHANGED <<knapsack_capacity, items, df, scipyVars, x1_decision_var,
                   weights, relative_values, pulp_decision_var_results,
                   output, milp_calls>>

(***************************************************************************)
(* PuLP, cell "Model Results": the values are read in the order of the     *)
(* keys of x1_decision_var.                                                *)
(***************************************************************************)
(* the values read in the reverse of the key order *)
ReadBackReversed(xs, v) ==
    [j \in 1..Len(xs.keys) |-> v[xs.keys[Len(xs.keys) + 1 - j]]]

ReadBack(xs, v) == [j \in 1..Len(xs.keys) |-> v[xs.keys[j]]]

PulpResults ==
    /\ pc = "PulpResults"
    /\ pulp_decision_var_results' = ReadBack(x1_decision_var, varValue)
    /\ output' = output \o
           << [label |-> "Solution Status",
               value |-> <<LpStatus(results), prob.sol_status>>],
              [label |-> "Final Objective Value",
               value |-> ExprValue(prob.objective, varValue)],
              [label |-> "pulp_decision_var_results",
               value |-> pulp_decision_var_results'] >>
    /\ pc' = "PulpFinal"
    /\ UNCHANGED <<knapsack_capacity, items, df, scipyVars, prob,
                   x1_decision_var, weights, relative_values, varValue,
                   results, milp_calls, solve_calls>>

(* the final cell writing its result into the scipy column *)
PulpFinalWrongColumn ==
    /\ pc = "PulpFinal"
    /\ df' = AssignColumn(df, "scipy_items_to_select",
                          BoolColumn(pulp_decision_var_results))
    /\ pc' = IF Len(pulp_decision_var_results) = Len(df["Item Id"])
             THEN "done" ELSE "error"
    /\ UNCHANGED <<knapsack_capacity, items, scipyVars, pulpVars, output,
                   milp_calls, solve_calls>>

(***************************************************************************)
(* PuLP, cell "Final Results".                                             *)
(***************************************************************************)
PulpFinal ==
    /\ pc = "PulpFinal"
    /\ df' = AssignColumn(df, "pulp_items_to_select",
                          BoolColumn(pulp_decision_var_results))
    /\ pc' = IF Len(pulp_decision_var_results) = Len(df["Item Id"])
             THEN "done" ELSE "error"
    /\ UNCHANGED <<knapsack_capacity, items, scipyVars, pulpVars, output,
                   milp_calls, solve_calls>>

Next ==
    \/ ScipyDefine
    \/ ScipySolve
    \/ ScipyResults
    \/ ScipyFinal
    \/ PulpDefine
    \/ PulpSolve
    \/ PulpResults
    \/ PulpFinal

Spec == Init /\ [][Next]_vars

(***************************************************************************)
(* Vocabulary of the properties.                                           *)
(***************************************************************************)
ScipyColumn == "scipy_items_to_select"
PulpColumn  == "pulp_items_to_select"

HasColumn(col) == col \in DOMAIN df

Rows == 1..Len(items.ItemId)

(* the rows a boolean column marks as selected *)
SelectedRows(col) == {i \in Rows : df[col][i]}

SelectedNames(col) == {items.ItemName[i] : i \in SelectedRows(col)}

RECURSIVE SetSum(_, _)
SetSum(f, S) == IF S = {} THEN 0
                ELSE LET i == CHOOSE j \in S : TRUE
                     IN  f[i] + SetSum(f, S \ {i})

TotalWeight(S) == SetSum(items.Weight, S)
TotalValue(S)  == SetSum(items.RelativeValue, S)

(* the subsets of the items that fit into the knapsack *)
Fitting == {S \in SUBSET Rows : TotalWeight(S) <= Tenths(knapsack_capacity)}

(* the values the notebook has shown under a label *)
Shown(label) == {output[i].value : i \in {j \in 1..Len(output) :
                                               output[j].label = label}}

(* the run is the one of the notebook as published *)
IsHardcoded == knapsack_capacity = HardcodedCapacity /\ items = HardcodedItems

ScipySolved == pc \in {"ScipyResults", "ScipyFinal", "PulpDefine", "PulpSolve",
                       "PulpResults", "PulpFinal", "done", "error"}
PulpSolved  == pc \in {"PulpResults", "PulpFinal", "done"}
PulpShown == pc \in {"PulpFinal", "done"}

ExpectedNames == {"Compass", "Knife", "Fire Starter Kit", "Tent", "Food"}

(***************************************************************************)
(* C1: for the notebook's instance (capacity 5) the run does not fail,     *)
(* both solves report the optimum with objective 23 (-23 for scipy), both  *)
(* columns select exactly Compass, Knife, Fire Starter Kit, Tent and Food, *)
(* and the weight of the selection is 4.5 kg.                              *)
(***************************************************************************)
C1_HardcodedOptimum ==
    IsHardcoded =>
        /\ pc # "error"
        /\ ScipySolved =>
              /\ sol.status = 0
              /\ sol.fun = Some(0 - 23)
              /\ sol.x = Some(<<1, 1, 1, 1, 0, 1, 0>>)
        /\ pc \in {"ScipyFinal", "PulpDefine", "PulpSolve", "PulpResults",
                   "PulpFinal", "done"} =>
              Shown("Final Knapsack Weight") = {45}
        /\ HasColumn(ScipyColumn) =>
              /\ SelectedNames(ScipyColumn) = ExpectedNames
              /\ TotalWeight(SelectedRows(ScipyColumn)) = 45
        /\ PulpSolved => results = LpStatusOptimal
        /\ PulpShown =>
              /\ Shown("Final Objective Value") = {23}
              /\ pulp_decision_var_results = <<1, 1, 1, 1, 0, 1, 0>>
        /\ HasColumn(PulpColumn) =>
              /\ SelectedNames(PulpColumn) = ExpectedNames
              /\ TotalWeight(SelectedRows(PulpColumn)) = 45

C1_Witness ==
    /\ IsHardcoded
    /\ pc = "done"
    /\ HasColumn(ScipyColumn)
    /\ HasColumn(PulpColumn)
    /\ milp_calls = 1
    /\ solve_calls = 1

(***************************************************************************)
(* C2: the items a result column marks as selected weigh together at most  *)
(* the capacity of the knapsack.                                           *)
(***************************************************************************)
C2_WithinCapacity ==
    /\ HasColumn(ScipyColumn) =>
          TotalWeight(SelectedRows(ScipyColumn)) <= Tenths(knapsack_capacity)
    /\ HasColumn(PulpColumn) =>
          TotalWeight(SelectedRows(PulpColumn)) <= Tenths(knapsack_capacity)

(* both columns are written and the knapsack cannot hold every item *)
C2_Witness ==
    /\ pc = "done"
    /\ HasColumn(ScipyColumn)
    /\ HasColumn(PulpColumn)
    /\ SelectedRows(PulpColumn) # {}
    /\ TotalWeight(Rows) > Tenths(knapsack_capacity)

(***************************************************************************)
(* C3: no subset of the items that fits into the knapsack has a larger     *)
(* total relative value than the selection a result column reports.        *)
(***************************************************************************)
C3_ValueMaximal ==
    /\ HasColumn(ScipyColumn) =>
          \A S \in Fitting : TotalValue(S) <= TotalValue(SelectedRows(ScipyColumn))
    /\ HasColumn(PulpColumn) =>
          \A S \in Fitting : TotalValue(S) <= TotalValue(SelectedRows(PulpColumn))

(* a reported selection that leaves out an item although others fit *)
C3_Witness ==
    /\ pc = "done"
    /\ HasColumn(PulpColumn)
    /\ SelectedRows(PulpColumn) # Rows
    /\ Cardinality(Fitting) > 1
    /\ IsHardcoded

(***************************************************************************)
(* C4: every decision variable of a returned solution is 0 or 1, in the    *)
(* scipy model and in the PuLP model.                                      *)
(***************************************************************************)
C4_Binary ==
    /\ (ScipySolved /\ ~IsNone(sol.x)) =>
          \A i \in 1..Len(Get(sol.x)) : Get(sol.x)[i] \in {0, 1}
    /\ PulpSolved =>
          \A k \in DOMAIN varValue : varValue[k] \in {0, 1}
    /\ PulpShown =>
          \A j \in 1..Len(pulp_decision_var_results) :
              pulp_decision_var_results[j] \in {0, 1}

(* both solvers have returned, with items taken and items left in each *)
C4_Witness ==
    /\ PulpSolved
    /\ ~IsNone(sol.x)
    /\ \E i, j \in 1..Len(Get(sol.x)) : Get(sol.x)[i] = 1 /\ Get(sol.x)[j] = 0
    /\ \E k, m \in DOMAIN varValue : varValue[k] = 1 /\ varValue[m] = 0

(***************************************************************************)
(* C5: the cells run in the order of the notebook (data, scipy model,      *)
(* scipy solve, scipy output, PuLP model, PuLP solve, PuLP output); milp   *)
(* and prob.solve are each called exactly once, in their own cell, and a   *)
(* result column exists only after the solve it reports.                   *)
(***************************************************************************)
Cells == <<"ScipyDefine", "ScipySolve", "ScipyResults", "ScipyFinal",
           "PulpDefine", "PulpSolve", "PulpResults", "PulpFinal", "done">>

Pos(c) == CHOOSE i \in 1..Len(Cells) : Cells[i] = c

C5_CallCounts ==
    /\ milp_calls = IF pc \in {"ScipyDefine", "ScipySolve"} THEN 0 ELSE 1
    /\ solve_calls = IF PulpSolved THEN 1 ELSE 0
    /\ HasColumn(ScipyColumn) => milp_calls = 1
    /\ HasColumn(PulpColumn) => solve_calls = 1
    /\ pc = "done" => HasColumn(ScipyColumn) /\ HasColumn(PulpColumn)

C5_Step ==
    /\ pc # "error" /\ pc # "done"
    /\ pc' = "error" \/ Pos(pc') = Pos(pc) + 1
    /\ milp_calls' # milp_calls => pc = "ScipySolve"
    /\ solve_calls' # solve_calls => pc = "PulpSolve"

C5_SequentialOnce == []C5_CallCounts /\ [][C5_Step]_vars

C5_Witness ==
    /\ pc = "done"
    /\ milp_calls = 1
    /\ solve_calls = 1
    /\ Len(output) > 0

(***************************************************************************)
(* C6: no step changes the capacity, the items or the four data columns    *)
(* of the table; a step only adds the column scipy_items_to_select or the  *)
(* column pulp_items_to_select, and a column, once written, keeps its      *)
(* entries (the PuLP column leaves the scipy column as it was).            *)
(***************************************************************************)
DataColumns == {"Item Id", "Item Name", "Weight (kg)", "Relative Value"}

C6_Step ==
    /\ knapsack_capacity' = knapsack_capacity
    /\ items' = items
    /\ DOMAIN df \subseteq DOMAIN df'
    /\ DOMAIN df' \subseteq DataColumns \cup {ScipyColumn, PulpColumn}
    /\ \A c \in DOMAIN df : df'[c] = df[c]
    /\ df'["Item Id"] = items.ItemId
    /\ df'["Item Name"] = items.ItemName
    /\ df'["Weight (kg)"] = items.Weight
    /\ df'["Relative Value"] = items.RelativeValue

C6_ReadOnlyData == [][C6_Step]_vars

(* both columns have been added, the second next to a non-trivial first *)
C6_Witness ==
    /\ pc = "done"
    /\ DOMAIN df = DataColumns \cup {ScipyColumn, PulpColumn}
    /\ SelectedRows(ScipyColumn) # {}
    /\ SelectedRows(ScipyColumn) # SelectedRows(PulpColumn)

(***************************************************************************)
(* C7: when a solver ends without an optimal solution, the status it       *)
(* returned is what the notebook shows, the solver has been called once    *)
(* and is not called again, and no selection is made up for the failed     *)
(* solve.                                                                  *)
(***************************************************************************)
ScipyFailed == ScipySolved /\ sol.status # 0
PulpFailed  == PulpSolved /\ results # LpStatusOptimal

C7_StatusSurfaced ==
    /\ ScipyFailed =>
          /\ Shown("sol") = {sol}
          /\ sol.status = 2 /\ ~sol.success
          /\ milp_calls = 1
          /\ solve_calls = 0
          /\ pc \in {"ScipyResults", "error"}
          /\ ~HasColumn(ScipyColumn)
    /\ (PulpFailed /\ PulpShown) =>
          /\ Shown("Solution Status") =
                {<<LpStatus(results), prob.sol_status>>}
          /\ prob.sol_status = results
          /\ solve_calls = 1
    /\ pc = "error" => ScipyFailed \/ PulpFailed

C7_StepAfterFailure == ScipyFailed => (milp_calls' = milp_calls /\ sol' = sol)

ByName(x) == [k \in KeySet(items.ItemName) |->
                 x[LastIndex(items.ItemName, k)]]

ScipyFeasibleSet ==
    MilpFeasible(decision_variables, bounds, constraints, integrality)
ScipyOptimalSet ==
    MilpOptimal(decision_variables, bounds, constraints, integrality)

BothDefined == pc \in {"PulpSolve", "PulpResults", "PulpFinal", "done"}

C8_SameProblem ==
    /\ BothDefined =>
          /\ {ByName(x) : x \in ScipyFeasibleSet} =
                PulpFeasible(prob, x1_decision_var)
          /\ {ByName(x) : x \in ScipyOptimalSet} =
                PulpOptimal(prob, x1_decision_var)
          /\ \A x \in ScipyFeasibleSet :
                Dot(decision_variables, x) =
                   0 - ExprValue(prob.objective, ByName(x))
    /\ PulpSolved =>
          /\ (sol.status = 0) = (results = LpStatusOptimal)
          /\ Get(sol.fun) = 0 - ExprValue(prob.objective, varValue)
    /\ (PulpShown /\ IsHardcoded) =>
          /\ Shown("scipy Objective Value") = {Some(0 - 23)}
          /\ Shown("Final Objective Value") = {23}
    /\ (pc = "done" /\ IsHardcoded) =>
          /\ Len(df[ScipyColumn]) = Len(df[PulpColumn])
          /\ \A i \in Rows : df[ScipyColumn][i] = df[PulpColumn][i]

(* the notebook's run has ended, with a model that has several selections *)
C8_Witness ==
    /\ pc = "done"
    /\ IsHardcoded
    /\ Cardinality(PulpFeasible(prob, x1_decision_var)) > 1
    /\ df[ScipyColumn] = df[PulpColumn]

(***************************************************************************)
(* C9: a result column has one entry per item, and its row i is TRUE       *)
(* exactly if the decision variable of item i is 1: entry i of sol.x on    *)
(* the scipy path, the variable keyed by the name of item i on the PuLP    *)
(* path.                                                                   *)
(***************************************************************************)
C9_Aligned ==
    /\ HasColumn(ScipyColumn) =>
          /\ Len(df[ScipyColumn]) = Len(items.ItemId)
          /\ \A i \in Rows : df[ScipyColumn][i] = (Get(sol.x)[i] = 1)
    /\ PulpShown =>
          /\ Len(pulp_decision_var_results) = Len(items.ItemId)
          /\ \A i \in Rows :
                pulp_decision_var_results[i] = varValue[items.ItemName[i]]
    /\ HasColumn(PulpColumn) =>
          /\ Len(df[PulpColumn]) = Len(items.ItemId)
          /\ \A i \in Rows :
                df[PulpColumn][i] = (varValue[items.ItemName[i]] = 1)

(* a PuLP column that is not symmetric: reading it backwards changes it *)
C9_Witness ==
    /\ HasColumn(ScipyColumn)
    /\ HasColumn(PulpColumn)
    /\ \E i \in Rows : df[PulpColumn][i] # df[PulpColumn][Len(items.ItemId) + 1 - i]

(***************************************************************************)
(* C10: the notebook's instance has exactly one optimal selection: one     *)
(* fitting subset of the items attains the maximum value, each model has   *)
(* one optimal solution, and so every run of the instance ends with the    *)
(* same two columns.                                                       *)
(***************************************************************************)
BestFitting == {S \in Fitting : \A T \in Fitting : TotalValue(T) <= TotalValue(S)}

C10_UniqueOptimum ==
    IsHardcoded =>
        /\ Cardinality(BestFitting) = 1
        /\ pc # "ScipyDefine" => Cardinality(ScipyOptimalSet) = 1
        /\ BothDefined => Cardinality(PulpOptimal(prob, x1_decision_var)) = 1
        /\ HasColumn(ScipyColumn) => {SelectedRows(ScipyColumn)} = BestFitting
        /\ HasColumn(PulpColumn) => {SelectedRows(PulpColumn)} = BestFitting

(* the notebook's instance solved by both solvers *)
C10_Witness ==
    /\ IsHardcoded
    /\ pc = "done"
    /\ SelectedRows(ScipyColumn) \in BestFitting
    /\ SelectedRows(PulpColumn) \in BestFitting

====
